---- MODULE Spec2Model ----
(***************************************************************************)
(* HCP-Dashboard: the ranking / segmentation / channel-affinity functions  *)
(* of hcp_utils.py and the top-to-bottom run of the Streamlit script       *)
(* app.py that calls them.                                                  *)
(*                                                                          *)
(* A DataFrame is a record [cols, rows]: cols is the set of column names,   *)
(* rows the sequence of rows in positional order.  Every row carries all    *)
(* eight fields; a field whose column is not in cols holds its "absent"     *)
(* value.  DataFrames live in a heap and the script's names hold references *)
(* into it, so that in-place column assignment and aliasing are visible.    *)
(***************************************************************************)
EXTENDS Integers, Sequences, FiniteSets, TLC

VARIABLES heap, data_ranked, data_segmented, affinity, shown, exported,
          filtered_data, pc, error

vars == <<heap, data_ranked, data_segmented, affinity, shown, exported,
          filtered_data, pc, error>>

(* ------------------------------ bounds ------------------------------ *)
\* longest table handed to the script run
MaxN == 5
\* longest table handed to the functions one by one
MaxRows == 2
\* largest rx value of a row handed to the functions one by one
MaxRx == 2

(* ------------------------------ values ------------------------------ *)
\* a float NaN (also the content of a score cell whose column is absent)
NaN == <<>>
\* a cell of a categorical column that holds no category
NA == "<NA>"
\* a name of the script that is not bound yet
None == 0
\* the reference held by the script's name `data`
data == 1

BaseCols == {"NPI Id", "speciality", "rx value", "state_code", "writing_behavior"}

\* three of the generator's specialities and one it does not know
Specialities == {"Cardiology", "Oncology", "Dermatology", "Podiatry"}
\* the three writing behaviours of score_map and one it does not know
Behaviors == {"High", "Medium", "Low", "Other"}
RxValues == 1..MaxRx

\* Identifier of the i-th generated provider
NpiOf(i) ==
  CASE i = 1 -> "100" [] i = 2 -> "101" [] i = 3 -> "102" [] i = 4 -> "103"
    [] i = 5 -> "104" [] i = 6 -> "105" [] OTHER -> "106"

\* State of the i-th row of an uploaded table
StateOf(i) == IF i % 2 = 1 THEN "CA" ELSE "NY"

BaseRow(npi, spec, rx, st, wb) ==
  [npi |-> npi, speciality |-> spec, rx |-> rx, state_code |-> st,
   writing_behavior |-> wb, score |-> NaN, priority_rank |-> 0, segment |-> NA]

BaseTable(rows) == [cols |-> BaseCols, rows |-> rows]

\* Rows handed to the functions one by one: every combination of speciality,
\* rx value and writing_behavior in every row.
UnitChoices == Specialities \X RxValues \X Behaviors

\* The i-th row of a table handed to the functions one by one
UnitRow(i, c) == BaseRow(NpiOf(i), c[1], c[2], StateOf(i), c[3])

\* Rows handed to the script: its tables must be long enough for segmentation
\* to get distinct bin edges, so a row varies in speciality and
\* writing_behavior only and takes its rx value from its position.
AppChoices == {"Cardiology", "Dermatology"} \X {"High", "Low"}

\* The i-th row of a table handed to the script
AppRow(i, c) == BaseRow(NpiOf(i), c[1], i, StateOf(i), c[2])

(* ------------------------------ rank_hcps ------------------------------ *)
\* score_map with a default weight of 0 for a key that is absent
score_map_default(wb) ==
  CASE wb = "High" -> <<3>> [] wb = "Medium" -> <<2>> [] wb = "Low" -> <<1>>
    [] OTHER -> <<0>>

\* score_map and Series.map: a key that is absent maps to NaN
score_map(wb) ==
  CASE wb = "High" -> <<3>> [] wb = "Medium" -> <<2>> [] wb = "Low" -> <<1>>
    [] OTHER -> NaN

\* df['rx value'] * mapped: NaN propagates
Times(rx, w) == IF w = NaN THEN NaN ELSE <<rx * w[1]>>

\* df['score'] = ... : column assignment in place on the caller's frame
WithScore(df) ==
  [cols |-> df.cols \cup {"score"},
   rows |-> [i \in DOMAIN df.rows |->
               [df.rows[i] EXCEPT !.score =
                   Times(df.rows[i].rx, score_map(df.rows[i].writing_behavior))]]]

\* the order of sort_values('score') with ascending left at its default
MayPrecedeAscending(rows, a, b) ==
  IF rows[a].score = NaN
    THEN rows[b].score = NaN /\ a < b
    ELSE rows[b].score = NaN \/ rows[a].score[1] =< rows[b].score[1]

\* May the row at input position a come somewhere before the row at input
\* position b in sort_values('score', ascending=False)?  NaN scores go last
\* (na_position='last') in input order; the default kind='quicksort' is not
\* stable, so rows of equal score may come in either order.
MayPrecede(rows, a, b) ==
  IF rows[a].score = NaN
    THEN rows[b].score = NaN /\ a < b
    ELSE rows[b].score = NaN \/ rows[a].score[1] >= rows[b].score[1]

Perms(n) == IF n = 0 THEN {<<>>} ELSE Permutations(1..n)

\* The orders sort_values may produce: p[i] is the input position of the row
\* placed at output position i.
SortOrders(rows) ==
  { p \in Perms(Len(rows)) :
      \A i, j \in 1..Len(rows) : i < j => MayPrecede(rows, p[i], p[j]) }

\* priority_rank taken from the index without the + 1
RankOfIndexZeroBased(idx) == idx

\* df.index + 1 after reset_index(drop=True); idx is the 0-based index label
RankOfIndex(idx) == idx + 1

\* sort_values(...).reset_index(drop=True) under order p, then priority_rank
Ranked(df, p) ==
  [cols |-> df.cols \cup {"priority_rank"},
   rows |-> [i \in DOMAIN df.rows |->
               [df.rows[p[i]] EXCEPT !.priority_rank = RankOfIndex(i - 1)]]]

\* rank_hcps sorting and ranking the caller's frame in place
rank_hcps_inplace(h, ref) ==
  LET scored == WithScore(h[ref])
  IN  { [heap |-> Append([h EXCEPT ![ref] = Ranked(scored, p)], Ranked(scored, p)),
         ret  |-> Len(h) + 1] : p \in SortOrders(scored.rows) }

\* rank_hcps(df): the possible outcomes, each the heap after the call and the
\* reference returned (a new frame; the caller's frame has gained score).
rank_hcps(h, ref) ==
  LET scored == WithScore(h[ref])
  IN  { [heap |-> Append([h EXCEPT ![ref] = scored], Ranked(scored, p)),
         ret  |-> Len(h) + 1] : p \in SortOrders(scored.rows) }

(* ----------------------------- segment_hcps ----------------------------- *)
labels == <<"Top 20%", "Middle 30%", "Bottom 50%">>

\* bins = [0, int(n*0.2), int(n*0.5), n]
bins(n) == <<0, (n * 2) \div 10, (n * 5) \div 10, n>>

\* pd.cut rejects bin edges that are not all different (duplicates='raise')
BinsRaise(b) ==
  \/ \E k \in 1..(Len(b) - 1) : b[k] > b[k + 1]
  \/ Cardinality({b[k] : k \in DOMAIN b}) < Len(b)

\* bins.searchsorted(x, side='left')
searchsorted(b, x) == Cardinality({k \in DOMAIN b : b[k] < x})

\* the bin id pd.cut gives x (include_lowest=True moves x = bins[0] to bin 1)
BinId(b, x) == IF x = b[1] THEN 1 ELSE searchsorted(b, x)

\* the label of x, or no category when x is outside every bin
cut(x, b) ==
  LET id == BinId(b, x)
  IN  IF id = 0 \/ id = Len(b) THEN NA ELSE labels[id]

\* df['segment'] = pd.cut(...) in place on the frame passed in
WithSegment(df) ==
  [cols |-> df.cols \cup {"segment"},
   rows |-> [i \in DOMAIN df.rows |->
               [df.rows[i] EXCEPT !.segment =
                   cut(df.rows[i].priority_rank, bins(Len(df.rows)))]]]

\* segment_hcps(df): raises, or assigns in place and returns the same frame
segment_hcps(h, ref) ==
  IF BinsRaise(bins(Len(h[ref].rows)))
    THEN [raised |-> TRUE, heap |-> h, ret |-> None]
    ELSE [raised |-> FALSE, heap |-> [h EXCEPT ![ref] = WithSegment(h[ref])],
          ret |-> ref]

(* --------------------------- channel_affinity --------------------------- *)
\* the two conditions joined by `and`
channel_label_and(row) ==
  IF row.writing_behavior = "High" /\ row.speciality \in {"Cardiology", "Oncology"}
    THEN "In-person" ELSE "Email"

\* line 66: the label of one row
channel_label(row) ==
  IF row.writing_behavior = "High" \/ row.speciality \in {"Cardiology", "Oncology"}
    THEN "In-person" ELSE "Email"

\* a new two-column frame, one row per row of df in df's order
channel_affinity(df) ==
  [i \in DOMAIN df.rows |->
     [npi |-> df.rows[i].npi, channel_affinity |-> channel_label(df.rows[i])]]

(* ------------------------------- filters ------------------------------- *)
\* the characters of the strings the model uses
Spell(s) ==
  CASE s = "Cardiology"  -> <<"C", "a", "r", "d", "i", "o", "l", "o", "g", "y">>
    [] s = "Oncology"    -> <<"O", "n", "c", "o", "l", "o", "g", "y">>
    [] s = "Dermatology" -> <<"D", "e", "r", "m", "a", "t", "o", "l", "o", "g", "y">>
    [] s = "Podiatry"    -> <<"P", "o", "d", "i", "a", "t", "r", "y">>
    [] s = "100" -> <<"1", "0", "0">>
    [] s = "101" -> <<"1", "0", "1">>
    [] s = "102" -> <<"1", "0", "2">>
    [] s = "103" -> <<"1", "0", "3">>
    [] s = "104" -> <<"1", "0", "4">>
    [] s = "105" -> <<"1", "0", "5">>
    [] s = "106" -> <<"1", "0", "6">>
    [] OTHER -> <<>>

\* case folding of case=False
Lower(c) ==
  CASE c = "C" -> "c" [] c = "O" -> "o" [] c = "D" -> "d" [] c = "P" -> "p" [] c = "R" -> "r"
    [] c = "L" -> "l" [] OTHER -> c

Fold(t) == [k \in DOMAIN t |-> Lower(t[k])]

\* Series.str.contains(pat, case=False) for a pattern of plain characters
contains(text, pat) ==
  LET t == Fold(text)
      q == Fold(pat)
  IN  \E k \in 0..(Len(t) - Len(q)) :
        \A m \in 1..Len(q) : t[k + m] = q[m]

\* what may be typed into the two search boxes ("" leaves the box unused)
NpiSearches == { <<>>, <<"1", "0", "1">>, <<"0", "4">> }
SpecialtySearches == { <<>>, <<"c", "a", "r">>, <<"O", "L">> }

\* column.unique(): the options and the default of a multiselect
unique_states(df) == { df.rows[i].state_code : i \in DOMAIN df.rows }
unique_specialities(df) == { df.rows[i].speciality : i \in DOMAIN df.rows }

\* a filter that ranks the rows it keeps afresh
filter_rows_rerank(df, states, specialties, search_npi, search_specialty) ==
  LET keep(r) ==
        /\ r.state_code \in states
        /\ r.speciality \in specialties
        /\ (search_npi # <<>> => contains(Spell(r.npi), search_npi))
        /\ (search_specialty # <<>> => contains(Spell(r.speciality), search_specialty))
      kept == SelectSeq(df.rows, keep)
  IN  [cols |-> df.cols,
       rows |-> [k \in DOMAIN kept |-> [kept[k] EXCEPT !.priority_rank = k]]]

\* app.py lines 143-151: boolean-mask indexing builds a new frame of the rows
\* kept, in df's order; the frame indexed is not written
filter_rows(df, states, specialties, search_npi, search_specialty) ==
  LET keep(r) ==
        /\ r.state_code \in states
        /\ r.speciality \in specialties
        /\ (search_npi # <<>> => contains(Spell(r.npi), search_npi))
        /\ (search_specialty # <<>> => contains(Spell(r.speciality), search_specialty))
  IN  [cols |-> df.cols, rows |-> SelectSeq(df.rows, keep)]

(* ------------------------------ the script ------------------------------ *)
NoFrame == [cols |-> {}, rows |-> <<>>]

\* app.py after lines 33-38: `data` is bound to the uploaded or generated table
Init ==
  /\ \E n \in 0..MaxN : \E f \in [1..n -> AppChoices] :
       heap = << BaseTable([i \in 1..n |-> AppRow(i, f[i])]) >>
  /\ data_ranked = None
  /\ data_segmented = None
  /\ affinity = <<>>
  /\ shown = NoFrame
  /\ exported = NoFrame
  /\ filtered_data = NoFrame
  /\ pc = "rank"
  /\ error = "none"

\* line 41: data_ranked = rank_hcps(data)
RankHcps ==
  /\ pc = "rank"
  /\ \E out \in rank_hcps(heap, data) :
       /\ heap' = out.heap
       /\ data_ranked' = out.ret
  /\ pc' = "segment"
  /\ UNCHANGED <<data_segmented, affinity, shown, exported, filtered_data, error>>

\* line 42: data_segmented = segment_hcps(data_ranked); an exception ends the run
SegmentHcps ==
  /\ pc = "segment"
  /\ LET out == segment_hcps(heap, data_ranked)
     IN  /\ heap' = out.heap
         /\ data_segmented' = out.ret
         /\ pc' = IF out.raised THEN "raised" ELSE "affinity"
         /\ error' = IF out.raised THEN "ValueError" ELSE error
  /\ UNCHANGED <<data_ranked, affinity, shown, exported, filtered_data>>

\* line 44: affinity = channel_affinity(data_segmented)
ChannelAffinity ==
  /\ pc = "affinity"
  /\ affinity' = channel_affinity(heap[data_segmented])
  /\ pc' = "show"
  /\ UNCHANGED <<heap, data_ranked, data_segmented, shown, exported, filtered_data, error>>

\* line 53: st.dataframe(data)
ShowData ==
  /\ pc = "show"
  /\ shown' = heap[data]
  /\ pc' = "export"
  /\ UNCHANGED <<heap, data_ranked, data_segmented, affinity, exported, filtered_data, error>>

\* lines 57-58: data.to_excel(output, index=False)
ExportData ==
  /\ pc = "export"
  /\ exported' = heap[data]
  /\ pc' = "filter"
  /\ UNCHANGED <<heap, data_ranked, data_segmented, affinity, shown, filtered_data, error>>

\* lines 135-151: the sidebar's four inputs, then filtered_data
FilterData ==
  /\ pc = "filter"
  /\ \E states \in SUBSET unique_states(heap[data_segmented]),
        specialties \in SUBSET unique_specialities(heap[data_segmented]),
        search_npi \in NpiSearches,
        search_specialty \in SpecialtySearches :
       filtered_data' = filter_rows(heap[data_segmented], states, specialties,
                                    search_npi, search_specialty)
  /\ pc' = "done"
  /\ UNCHANGED <<heap, data_ranked, data_segmented, affinity, shown, exported, error>>

Next == RankHcps \/ SegmentHcps \/ ChannelAffinity \/ ShowData \/ ExportData \/ FilterData

Spec == Init /\ [][Next]_vars

(* ----------------- the functions of hcp_utils one by one ----------------- *)
InitUnit ==
  /\ \E n \in 0..MaxRows : \E f \in [1..n -> UnitChoices] :
       heap = << BaseTable([i \in 1..n |-> UnitRow(i, f[i])]) >>
  /\ data_ranked = None
  /\ data_segmented = None
  /\ affinity = <<>>
  /\ shown = NoFrame
  /\ exported = NoFrame
  /\ filtered_data = NoFrame
  /\ pc = "t_affinity"
  /\ error = "none"

\* channel_affinity(df) on the table as given
CallChannelAffinity ==
  /\ pc = "t_affinity"
  /\ affinity' = channel_affinity(heap[data])
  /\ pc' = "t_rank"
  /\ UNCHANGED <<heap, data_ranked, data_segmented, shown, exported, filtered_data, error>>

\* rank_hcps(df) on the table as given
CallRankHcps ==
  /\ pc = "t_rank"
  /\ \E out \in rank_hcps(heap, data) :
       /\ heap' = out.heap
       /\ data_ranked' = out.ret
  /\ pc' = "t_segment"
  /\ UNCHANGED <<data_segmented, affinity, shown, exported, filtered_data, error>>

\* segment_hcps(df) on the ranked table
CallSegmentHcps ==
  /\ pc = "t_segment"
  /\ LET out == segment_hcps(heap, data_ranked)
     IN  /\ heap' = out.heap
         /\ data_segmented' = out.ret
         /\ pc' = IF out.raised THEN "raised" ELSE "t_done"
         /\ error' = IF out.raised THEN "ValueError" ELSE error
  /\ UNCHANGED <<data_ranked, affinity, shown, exported, filtered_data>>

NextUnit == CallChannelAffinity \/ CallRankHcps \/ CallSegmentHcps

SpecUnit == InitUnit /\ [][NextUnit]_vars

(* ------------------------------- the claims ------------------------------- *)
InputRows == heap[data].rows

\* the frame rank_hcps returned, once it has returned
RankedRows == IF data_ranked = None THEN <<>> ELSE heap[data_ranked].rows

Known == {"High", "Medium", "Low"}

\* the weight the specification gives a writing_behavior
ClaimWeight(wb) == IF wb = "High" THEN 3 ELSE IF wb = "Medium" THEN 2 ELSE 1

ClaimScore(r) == r.rx * ClaimWeight(r.writing_behavior)

\* line 42 has been executed, whether it returned or raised
SegmentCalled == pc \in {"affinity", "show", "export", "filter", "done", "t_done", "raised"}

\* C1: for a table of N >= 1 rows the priority_rank values rank_hcps returns
\* are exactly 1..N, each on exactly one row.
C1_RanksArePermutation ==
  (data_ranked # None /\ Len(InputRows) >= 1) =>
     /\ Len(RankedRows) = Len(InputRows)
     /\ { RankedRows[i].priority_rank : i \in DOMAIN RankedRows } = 1..Len(InputRows)
     /\ \A i, j \in DOMAIN RankedRows :
          i # j => RankedRows[i].priority_rank # RankedRows[j].priority_rank

C1_Witness ==
  /\ data_ranked # None
  /\ Len(InputRows) = 2
  /\ InputRows[1].score = InputRows[2].score
  /\ RankedRows[2].priority_rank = 2

\* C2: of two rows with a known writing_behavior the one with the strictly
\* greater rx value * weight has the strictly smaller priority_rank, and the
\* returned rows are in increasing priority_rank order.
C2_ScoreOrder ==
  data_ranked # None =>
     /\ \A i, j \in DOMAIN RankedRows :
          ( /\ RankedRows[i].writing_behavior \in Known
            /\ RankedRows[j].writing_behavior \in Known
            /\ ClaimScore(RankedRows[i]) > ClaimScore(RankedRows[j]) )
          => RankedRows[i].priority_rank < RankedRows[j].priority_rank
     /\ \A i, j \in DOMAIN RankedRows :
          i < j => RankedRows[i].priority_rank < RankedRows[j].priority_rank

C2_Witness ==
  /\ data_ranked # None
  /\ Len(InputRows) = 2
  /\ InputRows[1].writing_behavior \in Known
  /\ InputRows[2].writing_behavior \in Known
  /\ ClaimScore(InputRows[1]) < ClaimScore(InputRows[2])
  /\ RankedRows[1].npi = InputRows[2].npi

\* the position in the input of the row with this identifier
InputPos(npi) == CHOOSE k \in DOMAIN InputRows : InputRows[k].npi = npi

\* C3: of two rows of equal score the one that came earlier in the input gets
\* the smaller priority_rank.
C3_StableTies ==
  data_ranked # None =>
     \A i, j \in DOMAIN RankedRows :
        ( /\ RankedRows[i].score # NaN
          /\ RankedRows[i].score = RankedRows[j].score
          /\ InputPos(RankedRows[i].npi) < InputPos(RankedRows[j].npi) )
        => RankedRows[i].priority_rank < RankedRows[j].priority_rank

\* C4: for a ranked table of N >= 1 rows segment_hcps completes and gives every
\* row exactly one of the three labels.
C4_SegmentsPartition ==
  (SegmentCalled /\ Len(InputRows) >= 1) =>
     /\ error = "none"
     /\ data_segmented # None
     /\ "segment" \in heap[data_ranked].cols
     /\ \A i \in DOMAIN RankedRows :
          \E k \in DOMAIN labels : RankedRows[i].segment = labels[k]

\* C5: the row of priority_rank 1 is labelled "Top 20%", also when
\* floor(0.2N) = 0.
C5_RankOneIsTop ==
  (SegmentCalled /\ Len(InputRows) >= 1) =>
     /\ \E i \in DOMAIN RankedRows : RankedRows[i].priority_rank = 1
     /\ \A i \in DOMAIN RankedRows :
          RankedRows[i].priority_rank = 1 => RankedRows[i].segment = "Top 20%"

\* C6: on a table of no rows rank_hcps followed by segment_hcps raises no error
\* and returns a table of no rows.
C6_EmptyInput ==
  (SegmentCalled /\ Len(InputRows) = 0) =>
     /\ error = "none"
     /\ data_segmented # None
     /\ RankedRows = <<>>

\* C7: channel_affinity returns one row per input row, keyed by that row's
\* NPI Id, labelled "In-person" exactly when writing_behavior is "High" or
\* speciality is "Cardiology" or "Oncology", and "Email" otherwise.
C7_ChannelAffinity ==
  pc \in {"t_rank", "t_segment", "t_done", "raised"} =>
     /\ Len(affinity) = Len(InputRows)
     /\ \A i \in DOMAIN InputRows :
          /\ affinity[i].npi = InputRows[i].npi
          /\ affinity[i].channel_affinity \in {"In-person", "Email"}
          /\ affinity[i].channel_affinity = "In-person" <=>
               ( \/ InputRows[i].writing_behavior = "High"
                 \/ InputRows[i].speciality = "Cardiology"
                 \/ InputRows[i].speciality = "Oncology" )

C7_Witness ==
  /\ pc = "t_rank"
  /\ Len(InputRows) = 2
  /\ InputRows[1].speciality = "Podiatry" /\ InputRows[1].writing_behavior = "Other"
  /\ affinity[1].channel_affinity = "Email"
  /\ InputRows[2].speciality = "Oncology" /\ InputRows[2].writing_behavior = "Low"
  /\ affinity[2].channel_affinity = "In-person"

\* C8: a row whose writing_behavior is not High, Medium or Low makes rank_hcps
\* raise nothing; it gets a missing score, the other rows get rx value * weight,
\* and every input row comes back once, with a priority_rank in 1..N.
C8_UnknownBehavior ==
  data_ranked # None =>
     /\ pc = "t_segment" => error = "none"
     /\ Len(RankedRows) = Len(InputRows)
     /\ \A k \in DOMAIN InputRows :
          \E i \in DOMAIN RankedRows :
             /\ RankedRows[i].npi = InputRows[k].npi
             /\ RankedRows[i].rx = InputRows[k].rx
             /\ RankedRows[i].writing_behavior = InputRows[k].writing_behavior
             /\ RankedRows[i].priority_rank \in 1..Len(InputRows)
             /\ IF InputRows[k].writing_behavior \in Known
                  THEN RankedRows[i].score = <<ClaimScore(InputRows[k])>>
                  ELSE RankedRows[i].score = NaN

C8_Witness ==
  /\ data_ranked # None
  /\ Len(InputRows) = 2
  /\ InputRows[1].writing_behavior = "Other"
  /\ InputRows[2].writing_behavior = "Medium"
  /\ RankedRows[2].score = NaN
  /\ RankedRows[2].priority_rank = 2

\* C9: filtering keeps a subset of the rows of the segmented table, each with
\* the score, priority_rank and segment it had, in the same order, and writes
\* neither the segmented table nor the channel-affinity table.
C9_FilterKeepsValues ==
  [][ pc = "filter" =>
        /\ \A k \in DOMAIN filtered_data'.rows :
             \E i \in DOMAIN heap[data_segmented].rows :
                filtered_data'.rows[k] = heap[data_segmented].rows[i]
        /\ \A k, m \in DOMAIN filtered_data'.rows :
             k < m => filtered_data'.rows[k].priority_rank
                        < filtered_data'.rows[m].priority_rank
        /\ heap' = heap
        /\ data_segmented' = data_segmented
        /\ affinity' = affinity ]_vars

C9_Witness ==
  /\ pc = "done"
  /\ Len(filtered_data.rows) = 2
  /\ Len(heap[data_segmented].rows) = 5
  /\ filtered_data.rows[1].priority_rank = 2
  /\ filtered_data.rows[2].segment = "Bottom 50%"

\* C10: rank_hcps adds score to the caller's table in its original row order
\* and priority_rank only to the sorted copy it returns; segment_hcps adds
\* segment to that copy in place; so the table shown and exported is the five
\* input columns plus score, and never the filtered table.
C10_ShownTable ==
  /\ data_ranked # None =>
       /\ data_ranked # data
       /\ heap[data].cols = BaseCols \cup {"score"}
       /\ \A i \in DOMAIN InputRows : InputRows[i].npi = NpiOf(i)
       /\ heap[data_ranked].cols \cap {"score", "priority_rank"} = {"score", "priority_rank"}
  /\ pc \in {"affinity", "show", "export", "filter", "done"} =>
       /\ data_segmented = data_ranked
       /\ "segment" \in heap[data_ranked].cols
  /\ pc \in {"export", "filter", "done"} =>
       /\ shown = heap[data]
       /\ shown.cols = BaseCols \cup {"score"}
  /\ pc \in {"filter", "done"} =>
       /\ exported = heap[data]
       /\ exported.cols = BaseCols \cup {"score"}
  /\ pc = "done" =>
       /\ exported # filtered_data
       /\ filtered_data.cols = BaseCols \cup {"score", "priority_rank", "segment"}

C10_Witness ==
  /\ pc = "done"
  /\ Len(shown.rows) = 5
  /\ RankedRows[1].npi # InputRows[1].npi
  /\ Len(filtered_data.rows) = 5

====
